---- MODULE Spec2Model ----
(***************************************************************************)
(* Model of the BSMD identification layer (class User of                   *)
(* layers/identification/identification.py) and of the master node of the  *)
(* simulated-annealing use case (use_cases/simulated_annealing/            *)
(* chief_node.py), both running against one permissioned ledger.           *)
(*                                                                         *)
(* The specifications share the variables:                                 *)
(*   Spec    the methods of User called in any order by two users;         *)
(*   SpecSA  one run of chief_node.main with its workers (SpecSAFair: the  *)
(*           same run, main never stopping while it can take a step);      *)
(*   SpecNS  chief_node.new_state applied once to a beta vector.           *)
(*                                                                         *)
(* The ledger itself (Iroha), utils/iroha.py, layers/admin/administrator.py*)
(* and the worker node are not part of the modelled sources; the           *)
(* definitions that stand for them are modelled from the specification.    *)
(***************************************************************************)
EXTENDS Integers, Sequences, FiniteSets, TLC

VARIABLES
    \* ---- the ledger
    details,    \* (owner account, writer account, key) -> value, the details stored
    grants,     \* <<grantor account, grantee account>>: can_set_my_account_detail
    \* ---- Spec: the identification layer
    last,       \* the last method call of a User: arguments, exception, transaction, result
    written,    \* <<user name, key>> -> the value of the user's last accepted set_detail
    calling,    \* the create_account calls between line 75 and line 77
    \* ---- SpecSA: chief_node.main
    pc,         \* position of main
    workers,    \* the configured list of worker names (chief_node.workers)
    workers_proxies,   \* the worker behind each connection (chief_node.workers_proxies)
    k,          \* index of the worker the current for-loop is at
    beta,       \* <<beta_car, beta_cost, beta_tt>>
    new_beta,   \* <<new_beta_car, new_beta_cost, new_beta_tt>>
    solutions, betas_car, betas_cost, betas_tt,    \* the recorded trajectory
    cost, cost_i, initial_cost, all_cost,
    temp,       \* the temperature, an exact fraction <<numerator, denominator>>
    i, j,       \* inner and outer loop counters
    error,      \* the exception that ended main, "none" while it runs
    triggered,  \* the compute_cost invocations the workers have received
    fresh,      \* workers that published a cost since the last betas they received
    accepted, evaluated,   \* number of proposals accepted / decided so far
    reads       \* the query results main read in the current round, in order

ledgerVars == <<details, grants>>
userVars   == <<last, written, calling>>
saVars     == <<pc, workers, workers_proxies, k, beta, new_beta, solutions, betas_car, betas_cost,
               betas_tt, cost, cost_i, initial_cost, all_cost, temp, i, j, error,
               triggered, fresh, accepted, evaluated, reads>>
vars       == <<details, grants, last, written, calling, pc, workers, workers_proxies, k, beta, new_beta,
               solutions, betas_car, betas_cost, betas_tt, cost, cost_i,
               initial_cost, all_cost, temp, i, j, error, triggered, fresh,
               accepted, evaluated, reads>>

(***************************************************************************)
(* Python values                                                           *)
(***************************************************************************)

\* Every record below lists its fields in the order TLC keeps them in (the
\* order in which the names first appear), so that records need no sorting.

\* A str.
PyStr(s) == [s |-> s, t |-> "str", default_role |-> ""]

\* An object of class Domain(id_name, default_role): its id_name is a str.
Domain(id_name, default_role) ==
    [s |-> id_name, t |-> "Domain", default_role |-> default_role]

\* obj.id_name: defined on a Domain, AttributeError on a str.
AttrIdName(obj) ==
    IF obj.t = "Domain"
    THEN [raised |-> "none", val |-> PyStr(obj.s)]
    ELSE [raised |-> "AttributeError", val |-> PyStr("")]

\* An account id "name@domain", kept as the pair of its parts.
NoAccount == <<"-", "-">>

\* name + '@' + obj: a str when obj is a str, TypeError for any other object.
ConcatAt(name, obj) ==
    IF obj.t = "str"
    THEN [raised |-> "none", val |-> <<name, obj.s>>]
    ELSE [raised |-> "TypeError", val |-> NoAccount]

\* The maximum number of characters of a detail value.
MaxDetailLen == 4096

\* A detail value: a str, described by its text and its number of characters.
\* `body` is the sequence of numbers the text spells out ("1,2,3" is <<1,2,3>>),
\* `numeric` tells whether float() parses the text.
Str(body, len, numeric) == [body |-> body, len |-> len, numeric |-> numeric]
NoValue == Str(<<>>, 0, FALSE)

(***************************************************************************)
(* The ledger: accounts, signatures, commands and queries                  *)
(***************************************************************************)

\* IrohaCrypto.derive_public_key(private_key)
DerivePublicKey(private_key) == <<"pub", private_key>>

\* ip + ':50051' and IrohaGrpc(ip_address) (lines 41-42): the connection to the
\* node at that address.
ConcatPort(ip) == <<ip, ":50051">>
IrohaGrpc(ip_address) == <<"grpc", ip_address>>

\* User(private_key, name, domain, ip, public_info): the private key is used to
\* derive the public key and is not kept.  Line 40 reads domain.id_name, which
\* raises AttributeError when domain is a str: then there is no object.  The
\* object has the attribute public_info only when domain.id_name is 'public'
\* (lines 43-44) and always the attribute network, the connection to ip:50051
\* (lines 41-42); `attributes` is the set of the attributes the object has.
User(private_key, name, domain, ip, public_info) ==
    IF AttrIdName(domain).raised # "none"
    THEN [raised      |-> AttrIdName(domain).raised,
          name        |-> "-",
          domain      |-> PyStr(""),
          public_info |-> NoValue,
          public_key  |-> <<"pub", "-">>,
          attributes  |-> {},
          network     |-> IrohaGrpc("-")]
    ELSE [raised      |-> "none",
          name        |-> name,
          domain      |-> domain,
          public_info |-> IF AttrIdName(domain).val.s = "public" THEN public_info ELSE NoValue,
          public_key  |-> DerivePublicKey(private_key),
          attributes  |-> {"public_key", "name", "domain", "network"}
                            \cup IF AttrIdName(domain).val.s = "public"
                                 THEN {"public_info"} ELSE {},
          network     |-> IrohaGrpc(ConcatPort(ip))]

\* self.public_info: AttributeError when the object has no such attribute.
AttrPublicInfo(self) ==
    IF "public_info" \in self.attributes
    THEN [raised |-> "none", val |-> self.public_info]
    ELSE [raised |-> "AttributeError", val |-> NoValue]

\* The ip of the node hosting the blockchain.
NodeIp == "10.0.0.9"

\* The two users of Spec and the private keys they hold.
Alice == User("key_alice", "alice", Domain("public", "user"), NodeIp, Str(<<7>>, 1, FALSE))
Bob   == User("key_bob", "bob", Domain("fl", "user"), NodeIp, Str(<<8>>, 1, FALSE))
Users == {Alice, Bob}
PrivateKeys == {"key_alice", "key_bob"}

\* The accounts of SpecSA: the master and its workers, all in FLAGS.domain.
FlagsName   == "master"
FlagsDomain == "sa"
FlagsPrivateKey == "key_master"
FlagsIp     == "10.0.0.1"
WorkerNames == <<"w1", "w2">>
SAAccount(name) == <<name, FlagsDomain>>

\* The public key the ledger holds for an account.
AccountPublicKey(account) ==
    CASE account = <<"alice", "public">> -> DerivePublicKey("key_alice")
      [] account = <<"bob", "fl">>       -> DerivePublicKey("key_bob")
      [] account = SAAccount(FlagsName)  -> DerivePublicKey(FlagsPrivateKey)
      [] account = SAAccount("w1")       -> DerivePublicKey("key_w1")
      [] OTHER                           -> DerivePublicKey("key_w2")

Accounts ==
    {<<"alice", "public">>, <<"bob", "fl">>, SAAccount(FlagsName)}
        \cup {SAAccount(WorkerNames[n]) : n \in 1..Len(WorkerNames)}

AnyAccount == <<"*", "*">>
AnyKey     == "*"

\* An asset id "name#domain", kept as the pair of its parts.
NoAsset == <<"-", "-">>

\* A transaction of one command: its creator, the key that signed it, the command.
\* `account` is the account the command is addressed to (account_id, and
\* dest_account_id for a transfer); the fields a command does not have are "-".
Tx(creator, signer, cmd, account, key, value) ==
    [default_role |-> "-", account |-> account, creator |-> creator,
     signer |-> signer, cmd |-> cmd, key |-> key, value |-> value,
     src |-> NoAccount, asset |-> NoAsset, description |-> "-", amount |-> "-",
     domain_id |-> "-"]

\* A transaction of one TransferAsset command.
TransferTx(creator, signer, src, dest, asset, description, amount) ==
    [Tx(creator, signer, "TransferAsset", dest, "-", NoValue)
        EXCEPT !.src = src, !.asset = asset, !.description = description,
               !.amount = amount]

\* A transaction of one CreateDomain command.
DomainTx(creator, signer, domain_id, default_role) ==
    [Tx(creator, signer, "CreateDomain", NoAccount, "-", NoValue)
        EXCEPT !.domain_id = domain_id, !.default_role = default_role]
NoTx == Tx(NoAccount, "-", "none", NoAccount, "-", NoValue)

\* A signature is valid when the signing key is the creator account's key.
SignatureValid(creator, signer) ==
    /\ creator \in Accounts
    /\ DerivePublicKey(signer) = AccountPublicKey(creator)

\* Invariant (1) of the data model: a detail write needs writer = owner or a grant.
CanSetDetail(gr, creator, account) ==
    creator = account \/ <<account, creator>> \in gr

\* Stateless and stateful validation of a transaction by the ledger.  The ledger
\* of the model holds details and grants: it has no asset and no role that may
\* create accounts or domains, so it accepts no other command.
LedgerAccepts(gr, tx) ==
    /\ SignatureValid(tx.creator, tx.signer)
    /\ tx.account \in Accounts
    /\ CASE tx.cmd = "SetAccountDetail" ->
                CanSetDetail(gr, tx.creator, tx.account) /\ tx.value.len <= MaxDetailLen
         [] tx.cmd = "GrantPermission"  -> TRUE
         [] tx.cmd = "RevokePermission" -> TRUE
         [] OTHER -> FALSE

Put(f, t, v) == [x \in DOMAIN f \cup {t} |-> IF x = t THEN v ELSE f[x]]

DetailsAfter(det, gr, tx) ==
    IF LedgerAccepts(gr, tx) /\ tx.cmd = "SetAccountDetail"
    THEN Put(det, <<tx.account, tx.creator, tx.key>>, tx.value)
    ELSE det

GrantsAfter(gr, tx) ==
    IF ~LedgerAccepts(gr, tx) THEN gr
    ELSE CASE tx.cmd = "GrantPermission"  -> gr \cup {<<tx.creator, tx.account>>}
           [] tx.cmd = "RevokePermission" -> gr \ {<<tx.creator, tx.account>>}
           [] OTHER -> gr

TxStatus(gr, tx) ==
    IF tx = NoTx THEN "none"
    ELSE IF LedgerAccepts(gr, tx) THEN "COMMITTED" ELSE "REJECTED"

\* A GetAccountDetail query; writer and key are optional filters.
Query(creator, signer, account, writer, key) ==
    [name |-> "GetAccountDetail", account |-> account, creator |-> creator,
     signer |-> signer, key |-> key, writer |-> writer]

\* A GetAccountAssets query.
AssetsQuery(creator, signer, account) ==
    [Query(creator, signer, account, AnyAccount, AnyKey)
        EXCEPT !.name = "GetAccountAssets"]
NoQuery == Query(NoAccount, "-", NoAccount, AnyAccount, AnyKey)

\* The response's detail: the mapping writer -> key -> value of the matching
\* details, as the set of its <<writer, key, value>> entries; empty when nothing
\* matches.
EmptyMapping == {}
AccountDetail(det, q) ==
    {<<t[2], t[3], det[t]>> : t \in {u \in DOMAIN det :
        /\ u[1] = q.account
        /\ q.writer = AnyAccount \/ u[2] = q.writer
        /\ q.key = AnyKey \/ u[3] = q.key}}

QueryStatus(q) ==
    IF q = NoQuery THEN "none"
    ELSE IF SignatureValid(q.creator, q.signer) THEN "ok" ELSE "denied"

QueryResult(det, q) ==
    IF QueryStatus(q) = "ok" /\ q.name = "GetAccountDetail"
    THEN AccountDetail(det, q)
    ELSE EmptyMapping

(***************************************************************************)
(* class User: what each method builds before it is sent.  An outcome is   *)
(* the exception raised while building (if any), the transaction handed to *)
(* send_transaction_and_print_status, and the query handed to send_query.  *)
(***************************************************************************)

Outcome(raised, tx, query) == [raised |-> raised, tx |-> tx, query |-> query]
Raises(exception) == Outcome(exception, NoTx, NoQuery)

\* self.name + '@' + self.domain.id_name
OwnAccountId(self) == ConcatAt(self.name, AttrIdName(self.domain).val)

\* User.set_detail
set_detail(self, detail_key, detail_value, private_key) ==
    LET account_id == OwnAccountId(self).val
    IN  Outcome("none",
                Tx(account_id, private_key, "SetAccountDetail",
                   account_id, detail_key, detail_value),
                NoQuery)

\* A set_detail_to whose transaction is created in the name of the account it
\* writes to.
set_detail_to_InOwnersName(self, user, detail_key, detail_value, private_key) ==
    LET account_id == ConcatAt(user.name, user.domain)
    IN  IF account_id.raised # "none" THEN Raises(account_id.raised)
        ELSE Outcome("none",
                     Tx(account_id.val, private_key, "SetAccountDetail",
                        account_id.val, detail_key, detail_value),
                     NoQuery)

\* User.set_detail_to
set_detail_to(self, user, detail_key, detail_value, private_key) ==
    LET account    == OwnAccountId(self).val
        account_id == ConcatAt(user.name, user.domain)
    IN  IF account_id.raised # "none" THEN Raises(account_id.raised)
        ELSE Outcome("none",
                     Tx(account, private_key, "SetAccountDetail",
                        account_id.val, detail_key, detail_value),
                     NoQuery)

\* User.grants_access_set_details_to
grants_access_set_details_to(self, user, private_key) ==
    LET my_id_account    == OwnAccountId(self).val
        grant_account_id == ConcatAt(user.name, user.domain)
    IN  IF grant_account_id.raised # "none" THEN Raises(grant_account_id.raised)
        ELSE Outcome("none",
                     Tx(my_id_account, private_key, "GrantPermission",
                        grant_account_id.val, "-", NoValue),
                     NoQuery)

\* User.revoke_access_set_details_to
revoke_access_set_details_to(self, user, private_key) ==
    LET my_id_account    == OwnAccountId(self).val
        grant_account_id == ConcatAt(user.name, user.domain)
    IN  IF grant_account_id.raised # "none" THEN Raises(grant_account_id.raised)
        ELSE Outcome("none",
                     Tx(my_id_account, private_key, "RevokePermission",
                        grant_account_id.val, "-", NoValue),
                     NoQuery)

\* User.get_all_details: self.domain.id_name.id_name
get_all_details(self, private_key) ==
    LET id_name    == AttrIdName(AttrIdName(self.domain).val)
        account_id == ConcatAt(self.name, id_name.val)
    IN  IF id_name.raised # "none" THEN Raises(id_name.raised)
        ELSE Outcome("none", NoTx,
                     Query(account_id.val, private_key, account_id.val,
                           AnyAccount, AnyKey))

\* A read that asks for every key of the account.
get_a_detail_AllKeys(self, detail_key, private_key) ==
    LET account_id == OwnAccountId(self).val
    IN  Outcome("none", NoTx,
                Query(account_id, private_key, account_id, AnyAccount, AnyKey))

\* User.get_a_detail
get_a_detail(self, detail_key, private_key) ==
    LET account_id == OwnAccountId(self).val
    IN  Outcome("none", NoTx,
                Query(account_id, private_key, account_id, AnyAccount, detail_key))

\* User.get_all_details_written_by
get_all_details_written_by(self, user, private_key) ==
    LET account_id == OwnAccountId(self).val
        user_id    == ConcatAt(user.name, user.domain)
    IN  IF user_id.raised # "none" THEN Raises(user_id.raised)
        ELSE Outcome("none", NoTx,
                     Query(account_id, private_key, account_id, user_id.val, AnyKey))

\* User.get_a_detail_written_by
get_a_detail_written_by(self, user, detail_key, private_key) ==
    LET account_id == OwnAccountId(self).val
        user_id    == ConcatAt(user.name, user.domain)
    IN  IF user_id.raised # "none" THEN Raises(user_id.raised)
        ELSE Outcome("none", NoTx,
                     Query(account_id, private_key, account_id, user_id.val,
                           detail_key))

\* User.create_domain
create_domain(self, domain, private_key) ==
    LET account_id == OwnAccountId(self).val
    IN  Outcome("none",
                DomainTx(account_id, private_key, AttrIdName(domain).val.s,
                         domain.default_role),
                NoQuery)

\* User.get_balance
get_balance(self, private_key) ==
    LET account_id == OwnAccountId(self).val
    IN  Outcome("none", NoTx, AssetsQuery(account_id, private_key, account_id))

\* asset_name + '#' + domain: the asset id, as the pair of its parts.
ConcatHash(asset_name, obj) == <<asset_name, obj.s>>

\* A transfer addressed to the receiver's account in the receiver's own domain.
transfer_assets_to_UserDomain(self, user, asset_name, quantity, description, private_key, typed) ==
    LET account_id          == OwnAccountId(self).val
        destination_account == ConcatAt(user.name, AttrIdName(user.domain).val).val
        asset_id            == ConcatHash(asset_name, AttrIdName(self.domain).val)
    IN  IF typed /\ quantity.t # "str" THEN Raises("TypeError")
        ELSE Outcome("none",
                     TransferTx(account_id, private_key, account_id,
                                destination_account, asset_id, description,
                                quantity.s),
                     NoQuery)

\* User.transfer_assets_to.  The receiver's account and the asset are named in
\* the sender's domain (lines 164, 165).  `quantity` is a str in the example and
\* a float in the parameter list: `typed` tells whether the Iroha client checks
\* the type of the amount field (then a float raises TypeError at line 167) or
\* takes it as it comes; both are modelled.
transfer_assets_to(self, user, asset_name, quantity, description, private_key, typed) ==
    LET account_id          == OwnAccountId(self).val
        destination_account == ConcatAt(user.name, AttrIdName(self.domain).val).val
        asset_id            == ConcatHash(asset_name, AttrIdName(self.domain).val)
    IN  IF typed /\ quantity.t # "str" THEN Raises("TypeError")
        ELSE Outcome("none",
                     TransferTx(account_id, private_key, account_id,
                                destination_account, asset_id, description,
                                quantity.s),
                     NoQuery)

\* obj == 'text' (line 77): equal only when obj is that str; an object of another
\* class is not equal to a str.
PyEq(obj, text) == obj.t = "str" /\ obj.s = text

\* The domain_id the CreateAccount command is given (line 72): the text of a
\* str, and no domain id at all for another object.
DomainIdArg(obj) == IF obj.t = "str" THEN obj.s ELSE "<Domain object>"

\* User.create_account.  `typed` tells whether the Iroha client checks the type
\* of the command's fields (then a domain_id that is not a str raises TypeError
\* at line 70) or takes them as they come; both are modelled.  `detail` is the
\* outcome of the set_detail of line 78, when it is called; line 78 reads
\* self.public_info first, which raises AttributeError when self has no such
\* attribute: the CreateAccount transaction has been sent by then.
create_account(self, user, private_key, typed) ==
    LET account_id == OwnAccountId(self).val
        tx == Tx(account_id, private_key, "CreateAccount",
                 <<user.name, DomainIdArg(user.domain)>>, "-", NoValue)
        info == AttrPublicInfo(self)
    IN  IF typed /\ user.domain.t # "str"
        THEN [raised |-> "TypeError", tx |-> NoTx, query |-> NoQuery,
              detail |-> Raises("none")]
        ELSE IF PyEq(user.domain, "public") /\ info.raised # "none"
        THEN [raised |-> info.raised, tx |-> tx, query |-> NoQuery,
              detail |-> Raises(info.raised)]
        ELSE [raised |-> "none", tx |-> tx, query |-> NoQuery,
              detail |-> IF PyEq(user.domain, "public")
                         THEN set_detail(self, "public", info.val, private_key)
                         ELSE Raises("none")]

(***************************************************************************)
(* Spec: two users call the methods of User in any order                   *)
(***************************************************************************)

DetailKeys == {"age", "city"}

\* Detail values: a short one, one of exactly the maximum size, one too long.
DetailValues ==
    {Str(<<1>>, 1, TRUE), Str(<<2>>, MaxDetailLen, TRUE), Str(<<3>>, MaxDetailLen + 1, TRUE)}

NoUser == "-"

\* The record of a call: its arguments, what it raised, what it sent and what
\* came back (the transaction's status, the query's status and its result).
CallRecord(op, self, user, key, value, private_key, out, det, gr) ==
    [raised |-> out.raised, private_key |-> private_key, self |-> self,
     key |-> key, value |-> value, tx |-> out.tx, query |-> out.query,
     user |-> user, op |-> op, status |-> TxStatus(gr, out.tx),
     qstatus |-> QueryStatus(out.query), ret |-> QueryResult(det, out.query)]

NoCall ==
    CallRecord("none", NoUser, NoUser, "-", NoValue, "-", Raises("none"), <<>>, {})

\* A user runs one method at a time: self is inside a create_account.
Busy(self) == \E c \in calling : c.self = self

\* The whole call: build, sign, send; the ledger applies an accepted transaction.
Call(op, self, user, key, value, private_key, out) ==
    /\ ~Busy(self)
    /\ last' = CallRecord(op, self, user, key, value, private_key, out, details, grants)
    /\ written' = IF op = "set_detail" /\ TxStatus(grants, out.tx) = "COMMITTED"
                  THEN Put(written, <<self, key>>, value)
                  ELSE written
    /\ details' = DetailsAfter(details, grants, out.tx)
    /\ grants' = GrantsAfter(grants, out.tx)
    /\ UNCHANGED calling
    /\ UNCHANGED saVars

\* A user object whose domain attribute holds the id of the public domain as a
\* str: the value line 77 compares user.domain with, and the only kind of value
\* that user.name + '@' + user.domain accepts.  There is no account dave@public.
Dave == [User("key_dave", "dave", Domain("public", "user"), NodeIp, Str(<<6>>, 1, FALSE)) EXCEPT !.domain = PyStr("public")]

\* The user objects a method is handed as its `user` argument: the other user,
\* and Dave.
Others(self) == (Users \ {self}) \cup {Dave}

\* The key of the details a user writes into, or reads from, another account.
OthersKeys == {"age"}

\* The details a user sets on its own account, as <<key, value>>: every value
\* under "age", and the short one under "city".
OwnDetails == ({"age"} \X DetailValues) \cup {<<"city", Str(<<1>>, 1, TRUE)>>}

SetDetail ==
    \E self \in Users, d \in OwnDetails, pk \in PrivateKeys :
        Call("set_detail", self.name, NoUser, d[1], d[2], pk,
                set_detail(self, d[1], d[2], pk))

SetDetailTo ==
    \E self \in Users : \E user \in Others(self), key \in OthersKeys, value \in DetailValues,
       pk \in PrivateKeys :
        Call("set_detail_to", self.name, user.name, key, value, pk,
                set_detail_to(self, user, key, value, pk))

GrantsAccess ==
    \E self \in Users : \E user \in Others(self), pk \in PrivateKeys :
        Call("grants_access_set_details_to", self.name, user.name, "-", NoValue, pk,
                grants_access_set_details_to(self, user, pk))

RevokeAccess ==
    \E self \in Users : \E user \in Others(self), pk \in PrivateKeys :
        Call("revoke_access_set_details_to", self.name, user.name, "-", NoValue, pk,
                revoke_access_set_details_to(self, user, pk))

GetAllDetails ==
    \E self \in Users, pk \in PrivateKeys :
        Call("get_all_details", self.name, NoUser, "-", NoValue, pk,
                get_all_details(self, pk))

GetADetail ==
    \E self \in Users, key \in DetailKeys, pk \in PrivateKeys :
        Call("get_a_detail", self.name, NoUser, key, NoValue, pk,
                get_a_detail(self, key, pk))

GetAllDetailsWrittenBy ==
    \E self \in Users : \E user \in Others(self), pk \in PrivateKeys :
        Call("get_all_details_written_by", self.name, user.name, "-", NoValue, pk,
                get_all_details_written_by(self, user, pk))

GetADetailWrittenBy ==
    \E self \in Users : \E user \in Others(self), key \in OthersKeys, pk \in PrivateKeys :
        Call("get_a_detail_written_by", self.name, user.name, key, NoValue, pk,
                get_a_detail_written_by(self, user, key, pk))

\* The users create_account is called for, by name.
AccountUsers == Users \cup {Dave}
AccountUserOf(name) == CHOOSE u \in AccountUsers : u.name = name

\* Lines 67-77: create_account builds, signs and sends the CreateAccount
\* transaction and waits for its status, which it does not look at; when
\* user.domain == 'public' the call goes on to line 78.
CreateAccount ==
    \E self \in Users, user \in AccountUsers, pk \in PrivateKeys, typed \in BOOLEAN :
        LET out  == create_account(self, user, pk, typed)
            sent == Outcome(IF out.tx = NoTx THEN out.raised ELSE "none", out.tx, NoQuery)
        IN  /\ ~Busy(self.name)
            /\ last' = CallRecord("create_account", self.name, user.name, "-", NoValue,
                                  pk, sent, details, grants)
            /\ details' = DetailsAfter(details, grants, out.tx)
            /\ calling' = IF out.tx # NoTx /\ PyEq(user.domain, "public")
                          THEN calling \cup {[private_key |-> pk, self |-> self.name,
                                               user |-> user.name]}
                          ELSE calling
            /\ UNCHANGED <<grants, written>>
            /\ UNCHANGED saVars

\* Line 78 of a create_account that has reached it: self.public_info is read
\* (AttributeError when self has no such attribute) and set_detail builds, signs
\* and sends the SetAccountDetail transaction.
CreateAccountDetail ==
    \E c \in calling :
        LET out == create_account(AccountUserOf(c.self), AccountUserOf(c.user), c.private_key,
                                  FALSE).detail
        IN  /\ last' = CallRecord("create_account", c.self, c.user, out.tx.key,
                                  out.tx.value, c.private_key, out, details, grants)
            /\ details' = DetailsAfter(details, grants, out.tx)
            /\ written' = IF TxStatus(grants, out.tx) = "COMMITTED"
                          THEN Put(written, <<c.self, out.tx.key>>, out.tx.value)
                          ELSE written
            /\ calling' = calling \ {c}
            /\ UNCHANGED grants
            /\ UNCHANGED saVars

\* The domains a user asks to create.
NewDomains == {Domain("fl", "user"), Domain("lab", "worker")}

CreateDomain ==
    \E self \in Users, domain \in NewDomains, pk \in PrivateKeys :
        Call("create_domain", self.name, NoUser, AttrIdName(domain).val.s, NoValue, pk,
                create_domain(self, domain, pk))

GetBalance ==
    \E self \in Users, pk \in PrivateKeys :
        Call("get_balance", self.name, NoUser, "-", NoValue, pk,
                get_balance(self, pk))

\* The receivers of a transfer: the other user, and a user of the domain "fl"
\* (Bob's domain) who is not one of the callers.
Carol == User("key_carol", "carol", Domain("fl", "user"), NodeIp, Str(<<9>>, 1, FALSE))
Receivers == Users \cup {Carol}
ReceiverOf(name) == CHOOSE u \in Receivers : u.name = name

\* The quantities of a transfer: '2' and 2.0.
Quantities == {PyStr("2"), [s |-> "2.0", t |-> "float", default_role |-> ""]}

TransferAssetsTo ==
    \E self \in Users : \E user \in Receivers \ {self}, quantity \in Quantities,
       pk \in PrivateKeys, typed \in BOOLEAN :
        Call("transfer_assets_to", self.name, user.name, "coin", NoValue, pk,
                transfer_assets_to(self, user, "coin", quantity, "rent", pk, typed))

\* main is not running in Spec: its variables keep these values.
SAIdle ==
    /\ pc = "idle" /\ workers = <<>> /\ workers_proxies = <<>> /\ k = 0
    /\ beta = <<0, 0, 0>> /\ new_beta = <<0, 0, 0>>
    /\ solutions = <<>> /\ betas_car = <<>> /\ betas_cost = <<>> /\ betas_tt = <<>>
    /\ cost = 0 /\ cost_i = 0 /\ initial_cost = 0 /\ all_cost = <<>>
    /\ temp = <<1, 1>> /\ i = 0 /\ j = 0 /\ error = "none"
    /\ triggered = {} /\ fresh = {} /\ accepted = 0 /\ evaluated = 0 /\ reads = <<>>

\* The accounts exist, nothing is stored and nothing is granted.
Init ==
    /\ details = <<>>
    /\ grants = {}
    /\ last = NoCall
    /\ written = <<>>
    /\ calling = {}
    /\ SAIdle

Next ==
    \/ SetDetail
    \/ SetDetailTo
    \/ GrantsAccess
    \/ RevokeAccess
    \/ GetAllDetails
    \/ GetADetail
    \/ GetAllDetailsWrittenBy
    \/ GetADetailWrittenBy
    \/ CreateAccount
    \/ CreateAccountDetail
    \/ CreateDomain
    \/ GetBalance
    \/ TransferAssetsTo

Spec == Init /\ [][Next]_vars

(***************************************************************************)
(* chief_node.py: the pure functions                                       *)
(***************************************************************************)

\* The beta parameters are counted in units of 10^-6: the seed of main.
SeedBeta == <<1230, 6640, 6463>>

\* The bound of random.uniform(-0.01, 0.01), in units of 10^-6.
MaxError == 10000

\* random.uniform(-0.01, 0.01), in units of 10^-6: the draws of the runs of
\* main, the lower end of the range, 0 and an offset inside the range.
Errors == {-MaxError, 0, 5159}

\* A new_state that also moves the travel-time beta when it moves the cost beta.
new_state_TwoCoords(beta_car, beta_cost, beta_tt, chose_beta, err) ==
    <<IF chose_beta = 1 THEN beta_car + err ELSE beta_car,
      IF chose_beta = 2 THEN beta_cost + err ELSE beta_cost,
      IF chose_beta >= 2 THEN beta_tt + err ELSE beta_tt>>

\* new_state(beta_car, beta_cost, beta_tt) with its two random draws made explicit:
\* chose_beta = random.randint(1, 3) and error = random.uniform(-0.01, 0.01).
new_state(beta_car, beta_cost, beta_tt, chose_beta, err) ==
    <<IF chose_beta = 1 THEN beta_car + err ELSE beta_car,
      IF chose_beta = 2 THEN beta_cost + err ELSE beta_cost,
      IF chose_beta = 3 THEN beta_tt + err ELSE beta_tt>>

\* SpecNS: new_state applied once to a beta vector, for every draw.  The vectors
\* it is applied to, and the draws of random.uniform(-0.01, 0.01): both ends of the
\* range, the smallest offsets and 0.
NSBetas == {<<a, b, c>> : a \in {0, SeedBeta[1]}, b \in {0, SeedBeta[2]}, c \in {0, SeedBeta[3]}}
NSErrors == {-MaxError, -1, 0, 1, MaxError}

NSInit ==
    /\ details = <<>> /\ grants = {} /\ last = NoCall /\ written = <<>> /\ calling = {}
    /\ pc = "new_state" /\ workers = <<>> /\ workers_proxies = <<>> /\ k = 0
    /\ beta \in NSBetas /\ new_beta = beta
    /\ solutions = <<>> /\ betas_car = <<>> /\ betas_cost = <<>> /\ betas_tt = <<>>
    /\ cost = 0 /\ cost_i = 0 /\ initial_cost = 0 /\ all_cost = <<>>
    /\ temp = <<1, 1>> /\ i = 0 /\ j = 0 /\ error = "none"
    /\ triggered = {} /\ fresh = {} /\ accepted = 0 /\ evaluated = 0 /\ reads = <<>>

\* One call of new_state on beta; k keeps the coordinate randint chose.
NewState ==
    /\ pc = "new_state"
    /\ \E chose_beta \in 1..3, err \in NSErrors :
          /\ new_beta' = new_state(beta[1], beta[2], beta[3], chose_beta, err)
          /\ k' = chose_beta
    /\ UNCHANGED <<details, grants, last, written, calling, pc, workers, workers_proxies, beta, solutions,
                   betas_car, betas_cost, betas_tt, cost, cost_i, initial_cost,
                   all_cost, temp, i, j, error, triggered, fresh, accepted,
                   evaluated, reads>>

SpecNS == NSInit /\ [][NewState]_vars

\* A float that is a temperature is kept as an exact fraction <<num, den>>, den > 0.
FracGreater(a, b) == a[1] * b[2] > b[1] * a[2]
FracTimes(a, b) == <<a[1] * b[1], a[2] * b[2]>>

\* The binary digits after the point of 709.78271289338402..., the number
\* halfway between the largest double whose exp is finite (709.782712893384 =
\* 0x1.62e42fefa39efp+9) and the next double; a quotient at or above it is
\* rounded to a double whose exp overflows.
OverflowBits == <<1, 1, 0, 0, 1, 0, 0, 0, 0, 1, 0, 1, 1, 1, 1, 1, 1, 1, 0, 1, 1, 1, 1, 1, 0, 1, 0, 0, 0, 1, 1, 1, 0, 0, 1, 1, 1, 1, 0, 1, 1, 1, 1, 1>>

\* The same for 745.13321910194116..., halfway between 745.1332191019411 =
\* 0x1.74910d52d3051p+9 (exp(-745.1332191019411) is 5e-324, the smallest positive
\* double) and the next double, whose negative has the exp 0.0.
UnderflowBits == <<0, 0, 1, 0, 0, 0, 1, 0, 0, 0, 0, 1, 1, 0, 1, 0, 1, 0, 1, 0, 0, 1, 0, 1, 1, 0, 1, 0, 0, 1, 1, 0, 0, 0, 0, 0, 1, 0, 1, 0, 0, 0, 1, 1>>

\* r/den >= 0.bits[n] bits[n+1] ... in binary, for 0 <= r < den: the quotient is
\* developed digit by digit (no product, so nothing leaves the 32-bit integers).
RECURSIVE FracBitsAtLeast(_, _, _, _)
FracBitsAtLeast(r, den, bits, n) ==
    IF n > Len(bits) THEN TRUE
    ELSE LET b    == IF r >= den - r THEN 1 ELSE 0
             rest == IF b = 1 THEN r - (den - r) ELSE r + r
         IN  IF b # bits[n] THEN b > bits[n]
             ELSE FracBitsAtLeast(rest, den, bits, n + 1)

\* num/den >= whole + 0.bits, den > 0, whole >= 0.
FracAtLeast(num, den, whole, bits) ==
    IF num < 0 THEN FALSE
    ELSE IF num \div den # whole THEN num \div den > whole
    ELSE FracBitsAtLeast(num % den, den, bits, 1)

\* math.exp(x) for the double x nearest to num/den: OverflowError when x is above
\* 709.782712893384, 0.0 when x is below -745.1332191019411; otherwise the
\* result is kept as its logarithm num/den.
Exp(num, den) ==
    [raised |-> IF FracAtLeast(num, den, 709, OverflowBits) THEN "OverflowError" ELSE "none",
     zero   |-> FracAtLeast(-num, den, 745, UnderflowBits),
     ln     |-> <<num, den>>]

\* acceptance_probability(old_cost, new_cost, t) = exp((new_cost - old_cost) / t)
acceptance_probability(old_cost, new_cost, t) ==
    Exp((new_cost - old_cost) * t[2], t[1])

\* random.uniform(0, 1): a draw is 0 or exp(-negln), negln > 0 a fraction.
\* The draws of the model are 0, exp(-1/2) = 0.61 and exp(-2) = 0.14.
Draw(zero, negln) == [zero |-> zero, negln |-> negln]
Rands == {Draw(TRUE, <<0, 1>>), Draw(FALSE, <<1, 2>>), Draw(FALSE, <<2, 1>>)}

\* ap > rand
Greater(ap, rand) ==
    IF ap.zero THEN FALSE
    ELSE IF rand.zero THEN TRUE
    ELSE ap.ln[1] * rand.negln[2] > -(rand.negln[1]) * ap.ln[2]

RECURSIVE SeqSum(_)
SeqSum(seq) == IF seq = <<>> THEN 0 ELSE seq[1] + SeqSum(Tail(seq))

\* An aggregate that leaves out the last worker.
AddedCost_Partial(costs) ==
    SeqSum(IF costs = <<>> THEN costs ELSE SubSeq(costs, 1, Len(costs) - 1))

\* sum(all_cost)
AddedCost(costs) == SeqSum(costs)

\* str(beta_car) + ',' + str(beta_cost) + ',' + str(beta_tt): a short text that
\* is not a number.
BetasStr(b) == Str(b, 3 * 8 + 2, FALSE)

\* float(c): the number a numeric text spells out, ValueError otherwise.
Float(c) ==
    IF c.numeric /\ Len(c.body) = 1
    THEN [raised |-> "none", val |-> c.body[1]]
    ELSE [raised |-> "ValueError", val |-> 0]

\* temp = 1.0, alpha = 0.9
InitialTemp == <<1, 1>>
Alpha == <<9, 10>>

\* temp_min of the model, TempMinNum / TempMinDen.  The program's 0.00001 lies
\* strictly between two temperatures of the schedule 1.0 * 0.9^n (n = 109 and
\* n = 110), so the loop cools 110 times and temp never equals temp_min; the
\* model's value lies strictly between the initial temperature and the first
\* cooled one, so the loop cools once.
TempMinNum == 19
TempMinDen == 20
TempMin == <<TempMinNum, TempMinDen>>

\* The number of proposals at one temperature in the model (500 in the program).
InnerIters == 2

(***************************************************************************)
(* utils/iroha.py as chief_node.py uses it                                 *)
(***************************************************************************)

\* set_detail_to_node(sender, receiver, private_key, detail_key, detail_value,
\*                    domain, ip)
set_detail_to_node(sender, receiver, private_key, detail_key, detail_value, domain) ==
    Tx(<<sender, domain>>, private_key, "SetAccountDetail",
       <<receiver, domain>>, detail_key, detail_value)

\* get_a_detail_written_by(name, writer, private_key, detail_key, domain, ip)
get_a_detail_written_by_node(name, writer, private_key, detail_key, domain) ==
    Query(<<name, domain>>, private_key, <<name, domain>>, <<writer, domain>>,
          detail_key)

(***************************************************************************)
(* The worker node (compute_cost): once invoked, it reads the betas the     *)
(* master stored on its account, evaluates the cost and stores the result  *)
(* on the master's account under "cost".                                   *)
(***************************************************************************)

\* The costs a worker may compute on its data: 1 on the data of w1; 0, 1 or 1000
\* on the data of w2, which may also store a text that is not a number.
CostValues(w) == IF w = "w1" THEN {1} ELSE {0, 1, 1000}
CostTexts(w) == {Str(<<c>>, 1, TRUE) : c \in CostValues(w)} \cup IF w = "w1" THEN {} ELSE {Str(<<>>, 1, FALSE)}

WorkerKey(w) == IF w = "w1" THEN "key_w1" ELSE "key_w2"

WorkerSet == {workers[n] : n \in 1..Len(workers)}

\* The workers the master is connected to.
ProxySet == {workers_proxies[n] : n \in 1..Len(workers_proxies)}

\* The model function of lines 63-68, passed by reference.
ModelRef == "model"

\* An invocation that also hands over the master's private key.
compute_cost_WithKey(proxy, writer, domain, ip, model) ==
    [ip |-> FlagsPrivateKey, domain |-> domain, writer |-> writer, proxy |-> proxy,
     model |-> model]

\* Line 102: proxy.root.compute_cost(writer, domain, ip, model), the message the
\* worker behind the proxy receives.
compute_cost(proxy, writer, domain, ip, model) ==
    [ip |-> ip, domain |-> domain, writer |-> writer, proxy |-> proxy, model |-> model]

WorkerCompute ==
    \E w \in ProxySet : \E inv \in triggered : \E c \in CostTexts(w) :
        LET tx == set_detail_to_node(w, inv.writer, WorkerKey(w), "cost", c, inv.domain)
        IN  /\ inv.proxy = w
            /\ w \notin fresh
            /\ <<<<w, inv.domain>>, <<inv.writer, inv.domain>>, "betas">> \in DOMAIN details
            /\ details' = DetailsAfter(details, grants, tx)
            /\ fresh' = fresh \cup {w}
            /\ UNCHANGED <<grants, last, written, calling, pc, workers, workers_proxies, k, beta, new_beta,
                           solutions, betas_car, betas_cost, betas_tt, cost, cost_i,
                           initial_cost, all_cost, temp, i, j, error, triggered,
                           accepted, evaluated, reads>>

(***************************************************************************)
(* chief_node.main                                                         *)
(***************************************************************************)

\* A for-loop over the workers: the next position after worker k.
AfterWorker(n, here, next) == IF n < Len(workers) THEN here ELSE next

\* Lines 95-97 and 133-135: one set_detail_to_node of the betas to worker k.
\* The call's outcome is not looked at.
SendBetas(b) ==
    LET w  == workers[k]
        tx == set_detail_to_node(FlagsName, w, FlagsPrivateKey, "betas",
                                 BetasStr(b), FlagsDomain)
    IN  /\ details' = DetailsAfter(details, grants, tx)
        /\ fresh' = IF LedgerAccepts(grants, tx) THEN fresh \ {w} ELSE fresh

\* Lines 107-111 and 140-144: the read of worker k's cost.
ReadCost ==
    LET w == workers[k]
        q == get_a_detail_written_by_node(FlagsName, w, FlagsPrivateKey, "cost",
                                          FlagsDomain)
        result == QueryResult(details, q)
        found  == {e \in result : e[1] = SAAccount(w) /\ e[2] = "cost"}
        c      == IF found = {} THEN NoValue ELSE (CHOOSE e \in found : TRUE)[3]
    IN  [raised |-> IF found = {} THEN "KeyError" ELSE Float(c).raised,
         val |-> Float(c).val, query |-> q, result |-> result]

\* Lines 82-93: the state main starts from.
MainStart ==
    /\ beta = SeedBeta /\ new_beta = SeedBeta
    /\ solutions = <<>> /\ betas_car = <<>> /\ betas_cost = <<>> /\ betas_tt = <<>>
    /\ cost = 0 /\ cost_i = 0 /\ initial_cost = 0 /\ all_cost = <<>>
    /\ temp = InitialTemp /\ i = 0 /\ j = 0 /\ error = "none"
    /\ triggered = {} /\ fresh = {} /\ accepted = 0 /\ evaluated = 0 /\ reads = <<>>

\* Lines 95-97.
InitSend ==
    /\ error = "none"
    /\ pc = "init_send"
    /\ IF Len(workers) = 0
       THEN /\ pc' = "init_trigger"
            /\ UNCHANGED <<details, fresh, k>>
       ELSE /\ SendBetas(beta)
            /\ pc' = AfterWorker(k, "init_send", "init_trigger")
            /\ k' = AfterWorker(k, k + 1, 1)
    /\ UNCHANGED <<grants, last, written, calling, workers, workers_proxies, beta, new_beta, solutions,
                   betas_car, betas_cost, betas_tt, cost, cost_i, initial_cost,
                   all_cost, temp, i, j, error, triggered, accepted, evaluated, reads>>

\* The for-loop over workers_proxies: the next position after proxy n.
AfterProxy(n, here, next) == IF n < Len(workers_proxies) THEN here ELSE next

\* The position after the loop of lines 100-102: the loop of lines 106-111, or
\* line 113 when there is no worker to read from.
AfterTrigger == IF Len(workers) = 0 THEN "init_done" ELSE "init_collect"

\* Lines 100-103: one pass of the loop over workers_proxies, the call of
\* compute_cost on proxy k; after the last one, all_cost = [].
InitTrigger ==
    /\ error = "none"
    /\ pc = "init_trigger"
    /\ IF Len(workers_proxies) = 0
       THEN /\ UNCHANGED triggered
            /\ pc' = AfterTrigger
            /\ k' = 1
            /\ all_cost' = <<>>
            /\ reads' = <<>>
       ELSE /\ triggered' = triggered \cup
                    {compute_cost(workers_proxies[k], FlagsName, FlagsDomain, FlagsIp,
                                  ModelRef)}
            /\ pc' = AfterProxy(k, "init_trigger", AfterTrigger)
            /\ k' = AfterProxy(k, k + 1, 1)
            /\ all_cost' = AfterProxy(k, all_cost, <<>>)
            /\ reads' = AfterProxy(k, reads, <<>>)
    /\ UNCHANGED <<details, grants, last, written, calling, workers, workers_proxies, beta, new_beta, solutions,
                   betas_car, betas_cost, betas_tt, cost, cost_i, initial_cost,
                   temp, i, j, error, fresh, accepted, evaluated>>

\* One pass of a loop that reads the costs (lines 106-111, 139-144).
CollectOne(here, next) ==
    LET r == ReadCost
    IN  /\ reads' = Append(reads, [key |-> r.query.key, writer |-> workers[k],
                                  result |-> r.result, stale |-> workers[k] \notin fresh])
        /\ IF r.raised # "none"
           THEN /\ error' = r.raised
                /\ UNCHANGED <<all_cost, k, pc>>
           ELSE /\ all_cost' = Append(all_cost, r.val)
                /\ pc' = AfterWorker(k, here, next)
                /\ k' = AfterWorker(k, k + 1, 1)
                /\ UNCHANGED error

InitCollect ==
    /\ error = "none"
    /\ pc = "init_collect"
    /\ CollectOne("init_collect", "init_done")
    /\ UNCHANGED <<details, grants, last, written, calling, workers, workers_proxies, beta, new_beta, solutions,
                   betas_car, betas_cost, betas_tt, cost, cost_i, initial_cost,
                   temp, i, j, triggered, fresh, accepted, evaluated>>

\* Lines 113-126.
InitDone ==
    /\ error = "none"
    /\ pc = "init_done"
    /\ initial_cost' = AddedCost(all_cost)
    /\ betas_car' = Append(betas_car, beta[1])
    /\ betas_cost' = Append(betas_cost, beta[2])
    /\ betas_tt' = Append(betas_tt, beta[3])
    /\ solutions' = Append(solutions, cost)
    /\ temp' = InitialTemp
    /\ j' = 0
    /\ pc' = "outer"
    /\ UNCHANGED <<details, grants, last, written, calling, workers, workers_proxies, k, beta, new_beta, cost,
                   cost_i, all_cost, i, error, triggered, fresh, accepted, evaluated,
                   reads>>

\* A loop that tests the temperature the next cooling would give
\* (while temp * alpha > temp_min), and so ends one block early.
OuterTest_NextTemp ==
    /\ error = "none"
    /\ pc = "outer"
    /\ IF FracGreater(FracTimes(temp, Alpha), TempMin)
       THEN pc' = "inner" /\ i' = 1
       ELSE pc' = "done" /\ UNCHANGED i
    /\ UNCHANGED <<details, grants, last, written, calling, workers, workers_proxies, k, beta, new_beta,
                   solutions, betas_car, betas_cost, betas_tt, cost, cost_i,
                   initial_cost, all_cost, temp, j, error, triggered, fresh,
                   accepted, evaluated, reads>>

\* Lines 127-128 and 164: while temp > temp_min.
OuterTest ==
    /\ error = "none"
    /\ pc = "outer"
    /\ IF FracGreater(temp, TempMin)
       THEN pc' = "inner" /\ i' = 1
       ELSE pc' = "done" /\ UNCHANGED i
    /\ UNCHANGED <<details, grants, last, written, calling, workers, workers_proxies, k, beta, new_beta,
                   solutions, betas_car, betas_cost, betas_tt, cost, cost_i,
                   initial_cost, all_cost, temp, j, error, triggered, fresh,
                   accepted, evaluated, reads>>

\* Lines 129-131: while i <= 500, a new proposal.
Propose ==
    /\ error = "none"
    /\ pc = "inner"
    /\ i <= InnerIters
    /\ \E chose_beta \in 1..3, err \in Errors :
          new_beta' = new_state(beta[1], beta[2], beta[3], chose_beta, err)
    /\ k' = 1
    /\ pc' = IF Len(workers) = 0 THEN "decide" ELSE "send"
    /\ all_cost' = IF Len(workers) = 0 THEN <<>> ELSE all_cost
    /\ reads' = IF Len(workers) = 0 THEN <<>> ELSE reads
    /\ UNCHANGED <<details, grants, last, written, calling, workers, workers_proxies, beta, solutions,
                   betas_car, betas_cost, betas_tt, cost, cost_i, initial_cost,
                   temp, i, j, error, triggered, fresh, accepted, evaluated>>

\* Lines 133-138: the betas go to worker k; after the last one, all_cost = [].
Send ==
    /\ error = "none"
    /\ pc = "send"
    /\ SendBetas(new_beta)
    /\ pc' = AfterWorker(k, "send", "collect")
    /\ k' = AfterWorker(k, k + 1, 1)
    /\ all_cost' = AfterWorker(k, all_cost, <<>>)
    /\ reads' = AfterWorker(k, reads, <<>>)
    /\ UNCHANGED <<grants, last, written, calling, workers, workers_proxies, beta, new_beta, solutions,
                   betas_car, betas_cost, betas_tt, cost, cost_i, initial_cost,
                   temp, i, j, error, triggered, accepted, evaluated>>

\* Lines 139-144.
Collect ==
    /\ error = "none"
    /\ pc = "collect"
    /\ CollectOne("collect", "decide")
    /\ UNCHANGED <<details, grants, last, written, calling, workers, workers_proxies, beta, new_beta, solutions,
                   betas_car, betas_cost, betas_tt, cost, cost_i, initial_cost,
                   temp, i, j, triggered, fresh, accepted, evaluated>>

\* A controller that records every proposal it evaluates.
Recorded_Always(list, value, is_accepted) == Append(list, value)

\* A controller that keeps only the latest accepted value in the last entry.
Recorded_Overwrite(list, value, is_accepted) ==
    IF is_accepted /\ list # <<>> THEN [list EXCEPT ![Len(list)] = value]
    ELSE IF is_accepted THEN <<value>> ELSE list

\* A controller that records the proposals it rejects.
Recorded_Rejected(list, value, is_accepted) ==
    IF is_accepted THEN list ELSE Append(list, value)

\* Lines 150-158: a list of the trajectory gets the accepted value appended.
Recorded(list, value, is_accepted) ==
    IF is_accepted THEN Append(list, value) ELSE list

\* Lines 146-160: the aggregate, the acceptance test and its effect.
Decide ==
    /\ error = "none"
    /\ pc = "decide"
    /\ LET sum == AddedCost(all_cost)
           ap  == acceptance_probability(cost, sum, temp)
       IN  /\ cost_i' = sum
           /\ IF ap.raised # "none"
              THEN /\ error' = ap.raised
                   /\ UNCHANGED <<beta, cost, solutions, betas_car, betas_cost,
                                  betas_tt, i, accepted, evaluated, pc>>
              ELSE \E rand \in Rands :
                   /\ LET is_accepted == Greater(ap, rand)
                      IN  /\ beta' = IF is_accepted THEN new_beta ELSE beta
                          /\ cost' = IF is_accepted THEN sum ELSE cost
                          /\ solutions' = Recorded(solutions, sum, is_accepted)
                          /\ betas_car' = Recorded(betas_car, new_beta[1], is_accepted)
                          /\ betas_cost' = Recorded(betas_cost, new_beta[2], is_accepted)
                          /\ betas_tt' = Recorded(betas_tt, new_beta[3], is_accepted)
                          /\ accepted' = IF is_accepted THEN accepted + 1 ELSE accepted
                   /\ evaluated' = evaluated + 1
                   /\ i' = i + 1
                   /\ pc' = "inner"
                   /\ UNCHANGED error
    /\ UNCHANGED <<details, grants, last, written, calling, workers, workers_proxies, k, new_beta, initial_cost,
                   all_cost, temp, j, triggered, fresh, reads>>

\* A loop that leaves the block one proposal early (while i < 500).
Cool_Early ==
    /\ error = "none"
    /\ pc = "inner"
    /\ i >= InnerIters
    /\ temp' = FracTimes(temp, Alpha)
    /\ j' = j + 1
    /\ pc' = "outer"
    /\ UNCHANGED <<details, grants, last, written, calling, workers, workers_proxies, k, beta, new_beta,
                   solutions, betas_car, betas_cost, betas_tt, cost, cost_i,
                   initial_cost, all_cost, i, error, triggered, fresh, accepted,
                   evaluated, reads>>

\* Lines 129 and 161-162: the inner loop is over, the temperature is cooled.
Cool ==
    /\ error = "none"
    /\ pc = "inner"
    /\ i > InnerIters
    /\ temp' = FracTimes(temp, Alpha)
    /\ j' = j + 1
    /\ pc' = "outer"
    /\ UNCHANGED <<details, grants, last, written, calling, workers, workers_proxies, k, beta, new_beta,
                   solutions, betas_car, betas_cost, betas_tt, cost, cost_i,
                   initial_cost, all_cost, i, error, triggered, fresh, accepted,
                   evaluated, reads>>

\* The configurations main runs in: the workers list (line 18), the workers the
\* ports of line 17 connect to (lines 20-22), and the grants made before the run
\* (the master has granted every worker, some workers have granted the master).
SAInit ==
    /\ \E n \in 0..Len(WorkerNames) : workers = SubSeq(WorkerNames, 1, n)
    /\ \E n \in 0..Len(WorkerNames) : workers_proxies = SubSeq(WorkerNames, 1, n)
    /\ details = <<>>
    /\ \E granting \in SUBSET WorkerSet :
          grants = {<<SAAccount(FlagsName), SAAccount(w)>> : w \in WorkerSet}
                     \cup {<<SAAccount(w), SAAccount(FlagsName)>> : w \in granting}
    /\ last = NoCall
    /\ written = <<>>
    /\ calling = {}
    /\ pc = "init_send"
    /\ k = 1
    /\ MainStart

SANext ==
    \/ InitSend
    \/ InitTrigger
    \/ InitCollect
    \/ InitDone
    \/ OuterTest
    \/ Propose
    \/ Send
    \/ Collect
    \/ Decide
    \/ Cool
    \/ WorkerCompute

SpecSA == SAInit /\ [][SANext]_vars

\* The steps of main itself.
MainStep ==
    \/ InitSend \/ InitTrigger \/ InitCollect \/ InitDone \/ OuterTest
    \/ Propose \/ Send \/ Collect \/ Decide \/ Cool

(***************************************************************************)
(* Claims about the identification layer (checked under Spec)              *)
(***************************************************************************)

UserOf(name) == CHOOSE u \in Users : u.name = name
OwnKey(name) == IF name = "alice" THEN "key_alice" ELSE "key_bob"
Succeeded(call) == call.raised = "none" /\ call.status = "COMMITTED"

\* The `user` argument of a call is one of the users, an object built by
\* User.__init__.
ToUser(call) == \E u \in Users : u.name = call.user

\* C1 (as claimed): a write into another user's account succeeds exactly under a
\* live grant: it succeeds right after the owner's grant and fails right after the
\* owner's revoke, it never succeeds without a grant on the ledger, and a valid
\* write to one's own account always succeeds.
C1_GrantGatesSetDetailTo ==
    [][ /\ (last'.op = "set_detail_to" /\ Succeeded(last'))
            => <<OwnAccountId(UserOf(last'.user)).val,
                 OwnAccountId(UserOf(last'.self)).val>> \in grants
        /\ ( /\ last.op = "grants_access_set_details_to"
             /\ last.private_key = OwnKey(last.self)
             /\ last'.op = "set_detail_to"
             /\ last'.self = last.user /\ last'.user = last.self
             /\ last'.private_key = OwnKey(last'.self)
             /\ last'.value.len <= MaxDetailLen )
            => Succeeded(last')
        /\ ( /\ last.op = "revoke_access_set_details_to"
             /\ last'.op = "set_detail_to"
             /\ last'.self = last.user /\ last'.user = last.self )
            => ~Succeeded(last')
        /\ ( /\ last'.op = "set_detail"
             /\ last'.private_key = OwnKey(last'.self)
             /\ last'.value.len <= MaxDetailLen )
            => Succeeded(last')
      ]_vars

\* C2: after a user's set_detail(key, value) has been accepted, that user's
\* get_a_detail(key) returns, for the user as writer and that key, exactly the
\* value of the most recent accepted set_detail.
C2_WriteReadRoundTrip ==
    ( /\ last.op = "get_a_detail"
      /\ last.qstatus = "ok"
      /\ <<last.self, last.key>> \in DOMAIN written )
    => LET own == OwnAccountId(UserOf(last.self)).val
       IN  /\ <<own, last.key, written[<<last.self, last.key>>]>> \in last.ret
           /\ \A e \in last.ret :
                (e[1] = own /\ e[2] = last.key) => e[3] = written[<<last.self, last.key>>]
           /\ \A e \in last.ret : e[2] = last.key

\* C2 witness: a read that returns a value of the maximum size, written under
\* one key while the other key holds another value.
C2_Witness ==
    /\ last.op = "get_a_detail" /\ last.qstatus = "ok"
    /\ <<last.self, "age">> \in DOMAIN written
    /\ <<last.self, "city">> \in DOMAIN written
    /\ written[<<last.self, "age">>] # written[<<last.self, "city">>]
    /\ \E e \in last.ret : e[3].len = MaxDetailLen

\* C3 (as claimed): a user's grant and revoke to another user succeed, also when
\* repeated, and the second of two identical calls in a row leaves the live
\* grants as the first left them.
C3_GrantRevokeIdempotent ==
    [][ /\ ( /\ last'.op \in {"grants_access_set_details_to",
                               "revoke_access_set_details_to"}
             /\ ToUser(last')
             /\ last'.private_key = OwnKey(last'.self) )
            => Succeeded(last')
        /\ ( /\ last'.op \in {"grants_access_set_details_to",
                               "revoke_access_set_details_to"}
             /\ ToUser(last')
             /\ last.op = last'.op /\ last.self = last'.self /\ last.user = last'.user
             /\ last.private_key = OwnKey(last.self)
             /\ last'.private_key = OwnKey(last'.self) )
            => grants' = grants
      ]_vars

\* C4 (as claimed): set_detail and set_detail_to with a value longer than the
\* maximum fail with ValueTooLarge and hand no transaction to the ledger.
C4_ValueTooLargeFailsFast ==
    ( /\ last.op \in {"set_detail", "set_detail_to"}
      /\ last.value.len > MaxDetailLen )
    => (last.raised = "ValueTooLarge" /\ last.tx = NoTx)

(***************************************************************************)
(* Claims about the annealing controller (checked under SpecSA)            *)
(***************************************************************************)

InitPhase == {"init_send", "init_trigger", "init_collect", "init_done"}
Collecting == error = "none" /\ pc \in {"init_collect", "collect"}

\* C5 (as claimed): a read that matches no detail returns the empty mapping and
\* COLLECT takes it as "not yet available": main stays at that worker, to poll
\* again, and does not fail.
C5_EmptyReadIsPolledAgain ==
    [][ (Collecting /\ ReadCost.result = EmptyMapping)
            => (error' = "none" /\ pc' = pc /\ k' = k) ]_vars

\* C6 (as claimed): when main reads a worker's cost and there is none, the round
\* is incomplete: no decision is taken, beta_vector, current_cost and the history
\* are unchanged, and main goes on to propose the same beta_vector again.
C6_IncompleteRoundRetries ==
    [][ (Collecting /\ ReadCost.result = EmptyMapping /\ reads' # reads)
            => /\ error' = "none"
               /\ pc' \in {"init_send", "send"}
               /\ <<beta, new_beta, cost, evaluated>>' = <<beta, new_beta, cost, evaluated>>
               /\ <<solutions, betas_car, betas_cost, betas_tt>>'
                    = <<solutions, betas_car, betas_cost, betas_tt>> ]_vars

\* C7 (as claimed): a DECIDE step on a proposal whose aggregate cost is strictly
\* higher than current_cost accepts it, whatever the draw and the temperature:
\* afterwards beta_vector is the proposal and current_cost its aggregate cost.
C7_HigherCostAlwaysAccepted ==
    [][ ( /\ error = "none" /\ pc = "decide"
          /\ (pc' # pc \/ error' # error)
          /\ AddedCost(all_cost) > cost )
            => /\ error' = "none"
               /\ beta' = new_beta
               /\ cost' = AddedCost(all_cost) ]_vars

\* The cost a read returned: the value of the one entry of its result.
ReadValue(r) == (CHOOSE e \in r.result : TRUE)[3].body[1]

\* Every configured worker was read once, in order, for key "cost" written by
\* that worker, and all_cost holds the values read.
CompleteRound ==
    /\ Len(reads) = Len(workers)
    /\ Len(all_cost) = Len(workers)
    /\ \A n \in 1..Len(workers) :
          /\ reads[n].writer = workers[n]
          /\ reads[n].key = "cost"
          /\ Cardinality(reads[n].result) = 1
          /\ \A e \in reads[n].result : e[1] = SAAccount(workers[n]) /\ e[2] = "cost"
          /\ all_cost[n] = ReadValue(reads[n])

\* C8: when DECIDE runs, and for the aggregate it has used, the aggregate cost is
\* the sum of exactly one cost read from every configured worker.
C8_AggregateIsSumOverAllWorkers ==
    /\ (pc = "decide") => CompleteRound
    /\ (evaluated > 0 /\ pc \in {"decide", "inner", "outer", "done", "send"}
          /\ ~(pc = "decide" /\ error = "none"))
         => /\ Len(reads) = Len(workers)
            /\ cost_i = SeqSum([n \in 1..Len(reads) |-> ReadValue(reads[n])])

\* C8 witness: DECIDE has used the sum of two workers' different costs.
C8_Witness ==
    /\ pc = "inner" /\ evaluated > 0
    /\ Len(workers) = 2
    /\ all_cost = <<1, 0>>
    /\ cost_i = 1

\* C9 (as claimed): the temperature is positive and never above where it
\* started, and main stops only in TERMINATED.
C9_CoolingReachesTerminated ==
    /\ temp[1] > 0 /\ temp[2] > 0
    /\ ~FracGreater(temp, InitialTemp)
    /\ pc = "done" \/ ENABLED MainStep

\* C10 (as claimed): the four lists of the trajectory are as long as the number
\* of proposals accepted so far.
C10_HistoryLengthIsAccepted ==
    /\ Len(solutions) = accepted
    /\ Len(betas_car) = accepted
    /\ Len(betas_cost) = accepted
    /\ Len(betas_tt) = accepted

\* C10 (amended): the four lists are empty until main records the seed entry
\* (lines 119-122); from then on each is as long as one plus the number of
\* proposals accepted so far, whatever the number of proposals evaluated.
C10_HistoryLengthIsSeedPlusAccepted ==
    LET seed == IF pc \in InitPhase THEN 0 ELSE 1
    IN  /\ Len(solutions) = seed + accepted
        /\ Len(betas_car) = seed + accepted
        /\ Len(betas_cost) = seed + accepted
        /\ Len(betas_tt) = seed + accepted
        /\ accepted <= evaluated

\* C10 witness: a proposal was accepted and another one rejected.
C10_Witness ==
    /\ accepted = 1 /\ evaluated = 2
    /\ Len(solutions) = 2 /\ Len(betas_car) = 2

\* The four lists of the trajectory.
History == <<solutions, betas_car, betas_cost, betas_tt>>

\* A DECIDE step that accepts the proposal.
AcceptingDecide == pc = "decide" /\ error = "none" /\ accepted' = accepted + 1

\* What an accepting DECIDE step does: beta_vector becomes the proposal,
\* current_cost its aggregate cost, and each list gets exactly one entry.
AcceptEffect ==
    /\ beta' = new_beta
    /\ cost' = AddedCost(all_cost)
    /\ solutions' = Append(solutions, AddedCost(all_cost))
    /\ betas_car' = Append(betas_car, new_beta[1])
    /\ betas_cost' = Append(betas_cost, new_beta[2])
    /\ betas_tt' = Append(betas_tt, new_beta[3])

\* C11 (as claimed): beta_vector, current_cost and the history change only at an
\* accepting DECIDE step, which installs the proposal and its aggregate cost and
\* appends exactly one entry; every other step, a rejecting DECIDE included,
\* leaves all of them unchanged.
C11_StateChangesOnlyOnAccept ==
    [][ IF AcceptingDecide
        THEN AcceptEffect
        ELSE <<beta, cost, History>>' = <<beta, cost, History>> ]_vars

\* C11 (amended): INIT records the seed entry (the seed beta_vector and cost 0)
\* as the first entry of the empty history; apart from that step, beta_vector,
\* current_cost and the history change only at an accepting DECIDE step, which
\* installs the proposal and its aggregate cost and appends exactly one entry;
\* a rejecting DECIDE and every other step leave all of them unchanged.
C11_StateChangesOnlyOnAcceptAfterSeed ==
    [][ IF AcceptingDecide
        THEN AcceptEffect
        ELSE IF pc = "init_done" /\ pc' # pc
        THEN /\ History = <<<<>>, <<>>, <<>>, <<>>>>
             /\ History' = <<<<cost>>, <<beta[1]>>, <<beta[2]>>, <<beta[3]>>>>
             /\ <<beta, cost>>' = <<beta, cost>>
        ELSE <<beta, cost, History>>' = <<beta, cost, History>> ]_vars

\* C11 witness: after an acceptance and a rejection, the state is the accepted
\* proposal and the last entry of the history is that proposal.
C11_Witness ==
    /\ pc = "inner" /\ accepted >= 1 /\ evaluated > accepted
    /\ beta # SeedBeta
    /\ solutions[Len(solutions)] = cost
    /\ betas_car[Len(betas_car)] = beta[1]
    /\ Len(solutions) = accepted + 1

\* The beta vector of the round main is in: the seed in the initial round, the
\* proposal in a round of the loop.
RoundBeta == IF pc \in InitPhase THEN beta ELSE new_beta

\* The ledger holds, on worker w's account, the betas of this round written by
\* the master.
BetasPublishedTo(w) ==
    /\ <<SAAccount(w), SAAccount(FlagsName), "betas">> \in DOMAIN details
    /\ details[<<SAAccount(w), SAAccount(FlagsName), "betas">>] = BetasStr(RoundBeta)

\* C12 (as claimed): once main has read a cost for a round, the ledger has
\* accepted that round's betas for every worker: no cost is read, and none is
\* aggregated, in a round whose publish to some worker was rejected.
C12_CollectOnlyAfterDistribute ==
    (pc \in {"init_collect", "init_done", "collect", "decide"} /\ reads # <<>>)
        => \A n \in 1..Len(workers) : BetasPublishedTo(workers[n])

\* main runs on: a step of main that can be taken is eventually taken.
SpecSAFair == SAInit /\ [][SANext]_vars /\ WF_vars(MainStep)

\* C13 (as claimed): COLLECT always finishes: whenever main is reading the
\* workers' costs, it eventually leaves COLLECT (with the complete aggregate or
\* with the round given up), also when a worker does not answer.
C13_CollectAlwaysFinishes ==
    (pc \in {"init_collect", "collect"}) ~> (pc \notin {"init_collect", "collect"})

\* C14 (as claimed): when the cost main reads from a worker is not a number, or
\* is absent from the result, the run goes on: that read raises nothing that
\* ends main, the value is not folded into the costs of the round, and
\* beta_vector, current_cost and the history are unchanged.
C14_BadCostIsWorkerFailure ==
    [][ (Collecting /\ reads' # reads /\ ReadCost.raised \in {"ValueError", "KeyError"})
            => /\ error' = "none"
               /\ all_cost' = all_cost
               /\ <<beta, cost, History>>' = <<beta, cost, History>> ]_vars

(***************************************************************************)
(* Claims about create_account and the details (checked under Spec)        *)
(***************************************************************************)

\* C15 (as claimed): a user's create_account of its own account, with its own
\* key, stores the user's public_info under key "public" on that account when
\* the user's domain is the public domain, and stores nothing when it is not.
C15_CreateAccountPublishesPublicInfo ==
    [][ ( /\ last'.op = "create_account"
          /\ last'.user = last'.self
          /\ last'.private_key = OwnKey(last'.self) )
            => LET u   == UserOf(last'.self)
                   own == OwnAccountId(u).val
               IN  IF AttrIdName(u.domain).val.s = "public"
                   THEN /\ <<own, own, "public">> \in DOMAIN details'
                        /\ details'[<<own, own, "public">>] = u.public_info
                   ELSE details' = details ]_vars

\* C17 (as claimed): details are kept per (owner, writer, key): a step changes
\* no value stored by a writer other than the one whose transaction it applies,
\* and a user's get_a_detail_written_by(w, key), w another user, returns the
\* value w wrote under that key on the user's account, and only that.
C17_DetailsKeyedByTriple ==
    [][ /\ \A t \in DOMAIN details :
              (t[2] # last'.tx.creator \/ t[1] # last'.tx.account \/ t[3] # last'.tx.key)
                => (t \in DOMAIN details' /\ details'[t] = details[t])
        /\ ( /\ last'.op = "get_a_detail_written_by"
             /\ ToUser(last')
             /\ last'.private_key = OwnKey(last'.self) )
            => LET own == OwnAccountId(UserOf(last'.self)).val
                   w   == OwnAccountId(UserOf(last'.user)).val
               IN  /\ last'.raised = "none"
                   /\ last'.ret = IF <<own, w, last'.key>> \in DOMAIN details
                                  THEN {<<w, last'.key, details[<<own, w, last'.key>>]>>}
                                  ELSE EmptyMapping
      ]_vars

(***************************************************************************)
(* More claims about the annealing controller (checked under SpecSA)       *)
(***************************************************************************)

\* Every private key of the deployment.
SecretKeys ==
    PrivateKeys \cup {FlagsPrivateKey} \cup {WorkerKey(WorkerNames[n]) : n \in 1..Len(WorkerNames)}

\* C16: no private key leaves its process: a User object has the attributes
\* public_key, name, domain and network (the connection to the node's address),
\* public_info in the public domain, and no other,
\* so no private key among them; no
\* argument of a compute_cost invocation is a private key; and every detail the
\* master has published is the text of a beta vector under key "betas".
C16_PrivateKeyStaysLocal ==
    /\ \A u \in Users :
          /\ u.raised = "none"
          /\ {"public_key", "name", "domain", "network"} \subseteq u.attributes
          /\ u.attributes \subseteq {"public_key", "name", "domain", "network", "public_info"}
          /\ u.network = IrohaGrpc(ConcatPort(NodeIp))
          /\ u.name \notin SecretKeys
          /\ \E pk \in PrivateKeys : u.public_key = DerivePublicKey(pk)
    /\ \A inv \in triggered :
          /\ inv.writer = FlagsName /\ inv.domain = FlagsDomain
          /\ {inv.writer, inv.domain, inv.ip, inv.model} \cap SecretKeys = {}
    /\ \A t \in DOMAIN details :
          t[2] = SAAccount(FlagsName)
            => /\ t[3] = "betas"
               /\ Len(details[t].body) = 3
               /\ \A n \in 1..3 : details[t].body[n] \in Int
               /\ details[t] = BetasStr(details[t].body)

\* C16 witness: two workers have been sent the betas and have been invoked.
C16_Witness ==
    /\ Len(workers) = 2
    /\ Cardinality(triggered) = 2
    /\ \A n \in 1..2 : <<SAAccount(workers[n]), SAAccount(FlagsName), "betas">> \in DOMAIN details
    /\ evaluated > 0

\* main is in COLLECT, reading the workers' costs.
InCollect == pc \in {"init_collect", "collect"}

\* C18 (as claimed): in every round, the initial one and each round of the loop,
\* the step by which main enters COLLECT ends the invocations of compute_cost
\* (lines 100-102), every worker has been invoked by then, and at that point
\* every worker that lets the master write holds the round's betas under key
\* "betas".
C18_DistributeTriggersEveryRound ==
    [][ (InCollect' /\ ~InCollect)
            => /\ InitTrigger
               /\ \A n \in 1..Len(workers) :
                     /\ \E inv \in triggered' : inv.proxy = workers[n]
                     /\ <<SAAccount(workers[n]), SAAccount(FlagsName)>> \in grants
                           => BetasPublishedTo(workers[n])' ]_vars

\* C19 (as claimed): every cost DECIDE aggregates was computed by its worker from
\* the betas proposed in that round: none of the round's reads returned a cost
\* the worker had published before this round's betas reached it.
C19_NoStaleCostInDecide ==
    (pc = "decide" /\ Len(reads) = Len(workers))
        => \A n \in 1..Len(reads) : ~reads[n].stale

\* The temperature after n coolings: InitialTemp * Alpha^n.
CooledTemp(n) == <<InitialTemp[1] * Alpha[1]^n, InitialTemp[2] * Alpha[2]^n>>

\* C20: cooling happens once per block of InnerIters proposals (500 in the
\* program): the temperature is the initial one cooled j times, j being the
\* number of complete blocks, so it is constant inside a block; inside block
\* j + 1 the proposals evaluated are those of j blocks plus the i - 1 of this
\* block; the loop test is made only between blocks; and at termination the
\* number of proposals evaluated is InnerIters times the number of coolings.
C20_CoolingOncePerBlock ==
    /\ temp = CooledTemp(j)
    /\ (pc \in {"outer", "done"}) => evaluated = InnerIters * j
    /\ (pc \in {"inner", "send", "collect", "decide"})
          => /\ i \in 1..(InnerIters + 1)
             /\ evaluated = InnerIters * j + (i - 1)
    /\ (pc \in {"send", "collect", "decide"}) => i <= InnerIters
    /\ (pc = "done") => (j >= 1 /\ ~FracGreater(temp, TempMin))

\* C20 witness: the run has terminated after a cooling and a whole block.
C20_Witness ==
    /\ pc = "done" /\ j >= 1
    /\ evaluated = InnerIters * j
    /\ FracGreater(InitialTemp, temp)

\* C21: the run is terminated only at a temperature below temperature_min, and
\* the loop test, made at the start and after every cooling, starts another
\* block of proposals exactly when temperature >= temperature_min and ends the
\* run exactly when temperature < temperature_min.  The test of line 127 is
\* temp > temp_min: it differs from the claimed one only at temp = temp_min, a
\* temperature the schedule does not take.
C21_TerminatesExactlyBelowTempMin ==
    [][ /\ (pc = "outer" /\ error = "none" /\ pc' # pc)
            => /\ (pc' = "inner") <=> ~FracGreater(TempMin, temp)
               /\ (pc' = "done") <=> FracGreater(TempMin, temp)
        /\ (pc' = "done") => FracGreater(TempMin, temp')
        /\ (pc' = "outer") => temp' # TempMin ]_vars

\* C21 happens: the test at the initial temperature, above temp_min, started a
\* block; the block was run and the temperature cooled; the test at the cooled
\* temperature, below temp_min, ended the run.
C21_Witness ==
    /\ pc = "done" /\ error = "none"
    /\ j = 1 /\ evaluated = InnerIters
    /\ FracGreater(CooledTemp(j - 1), TempMin)
    /\ FracGreater(TempMin, temp)
    /\ Len(solutions) = accepted + 1

(***************************************************************************)
(* Claims about new_state (checked under SpecNS)                           *)
(***************************************************************************)

\* The coordinates in which the result of new_state differs from its input.
Changed == {d \in 1..3 : new_beta[d] # beta[d]}

\* C22 (as claimed): the result of new_state differs from its input in exactly
\* one coordinate, the chosen one, by an offset within [-0.01, 0.01]; the other
\* two coordinates are unchanged.
C22_NewStateChangesExactlyOne ==
    (k # 0) => /\ Changed = {k}
               /\ new_beta[k] - beta[k] \in (-MaxError)..MaxError

\* C22 (amended): the result of new_state differs from its input in at most one
\* coordinate, the chosen one, which is moved by an offset within [-0.01, 0.01]
\* (the offset can be 0, and then the result is the input); the other two
\* coordinates are unchanged and all three results are defined.
C22_NewStateChangesAtMostChosen ==
    (k # 0) => /\ Changed \subseteq {k}
               /\ new_beta[k] - beta[k] \in (-MaxError)..MaxError
               /\ DOMAIN new_beta = 1..3
               /\ \A d \in 1..3 : new_beta[d] \in Int

\* C22 witness: the third coordinate was chosen and moved by the largest offset.
C22_Witness ==
    /\ k = 3
    /\ new_beta[3] = beta[3] + MaxError
    /\ new_beta[1] = beta[1] /\ new_beta[2] = beta[2]

(***************************************************************************)
(* Claims about the start and the trajectory of the run (under SpecSA)     *)
(***************************************************************************)

\* C23 (as claimed): when the first DECIDE step runs, current_cost is the
\* baseline measured in the initial round, the sum of the costs the workers
\* returned for the seed beta_vector (the program has no infinite start value),
\* and the temperature is T0.
C23_FirstDecideStartsFromBaseline ==
    (pc = "decide" /\ evaluated = 0 /\ error = "none")
        => /\ cost = initial_cost
           /\ temp = InitialTemp

(***************************************************************************)
(* Claims about who creates and signs what a User sends (under Spec)       *)
(***************************************************************************)

\* The caller's own account id, name@domain.
CallerAccount == OwnAccountId(UserOf(last.self)).val

\* The account the `user` argument of the last call names, user.name + '@' +
\* user.domain.
NamedAccount == ConcatAt(last.user, AccountUserOf(last.user).domain).val

\* C24: every transaction and every query a User method builds has the caller's
\* own account name@domain as its creator and is signed with the key the caller
\* supplied; a detail write addressed to another account (set_detail_to) is a
\* SetAccountDetail created and signed by the writer and addressed to the
\* owner's account, never created in the owner's name; a grant or a revoke is
\* created by the owner and names the grantee; a read of what another user
\* wrote is a query on the caller's own account with that user as writer.
C24_CreatorIsCallerSignerIsSuppliedKey ==
    last.op # "none" =>
        /\ last.tx # NoTx =>
              /\ last.tx.creator = CallerAccount
              /\ last.tx.signer = last.private_key
        /\ last.query # NoQuery =>
              /\ last.query.creator = CallerAccount
              /\ last.query.signer = last.private_key
        /\ (last.op = "set_detail_to" /\ last.tx # NoTx) =>
              /\ last.tx.cmd = "SetAccountDetail"
              /\ last.tx.account = NamedAccount
              /\ last.tx.creator # last.tx.account
        /\ ( /\ last.op \in {"grants_access_set_details_to", "revoke_access_set_details_to"}
             /\ last.tx # NoTx ) =>
              /\ last.tx.cmd \in {"GrantPermission", "RevokePermission"}
              /\ last.tx.account = NamedAccount
        /\ ( /\ last.op \in {"get_all_details_written_by", "get_a_detail_written_by"}
             /\ last.query # NoQuery ) =>
              /\ last.query.account = CallerAccount
              /\ last.query.writer = NamedAccount
        /\ \A t \in DOMAIN details : \E u \in Users : t[2] = OwnAccountId(u).val

\* C24 happens: Bob has built a write into the account dave@public and signed it
\* with the key he was handed, here Alice's: the transaction is created in
\* Bob's name and addressed to Dave's account; a detail written by a
\* transaction created in Alice's name is stored.
C24_Witness ==
    /\ last.op = "set_detail_to"
    /\ last.self = "bob"
    /\ last.user = "dave"
    /\ last.private_key = "key_alice"
    /\ last.tx.cmd = "SetAccountDetail"
    /\ last.tx.creator = <<"bob", "fl">>
    /\ last.tx.signer = "key_alice"
    /\ last.tx.account = <<"dave", "public">>
    /\ \E t \in DOMAIN details : t[2] = <<"alice", "public">>

\* The sender's domain, self.domain.id_name.
CallerDomain == AttrIdName(UserOf(last.self).domain).val.s

\* C25: a transfer built by transfer_assets_to stays in the sender's domain: the
\* source account, the destination account and the asset id all carry the
\* sender's domain, whatever the domain of the receiving User, so no transfer
\* to an account of another domain is ever sent.
C25_TransferStaysInSenderDomain ==
    /\ (last.op = "transfer_assets_to" /\ last.tx # NoTx) =>
          /\ last.tx.cmd = "TransferAsset"
          /\ last.tx.src = CallerAccount
          /\ last.tx.src[2] = CallerDomain
          /\ last.tx.account = <<last.user, CallerDomain>>
          /\ last.tx.asset = <<last.key, CallerDomain>>
    /\ last.tx.cmd = "TransferAsset" =>
          /\ last.tx.account[2] = last.tx.src[2]
          /\ last.tx.asset[2] = last.tx.src[2]

\* C25 happens: Bob, of domain fl, transfers to Alice, whose domain is public,
\* and the transfer built names alice@fl.
C25_Witness ==
    /\ last.op = "transfer_assets_to"
    /\ last.self = "bob"
    /\ last.user = "alice"
    /\ ReceiverOf(last.user).domain.s = "public"
    /\ last.tx.cmd = "TransferAsset"
    /\ last.tx.account = <<"alice", "fl">>
    /\ last.tx.asset = <<"coin", "fl">>

\* The last entry of a non-empty list.
Last(list) == list[Len(list)]

\* C26: in every state of the run the four recorded lists have the same length,
\* and from the seed entry on (the lists are empty during INIT only) their last
\* entries are the controller's current cost and current beta vector.
C26_TrajectoryTailIsCurrentState ==
    /\ Len(betas_car) = Len(solutions)
    /\ Len(betas_cost) = Len(solutions)
    /\ Len(betas_tt) = Len(solutions)
    /\ (pc \in InitPhase) <=> (solutions = <<>>)
    /\ solutions # <<>> =>
          /\ Last(solutions) = cost
          /\ <<Last(betas_car), Last(betas_cost), Last(betas_tt)>> = beta

\* C26 happens: a proposal has been accepted, a later one rejected, and the
\* tail of the four lists is still the accepted cost and beta vector.
C26_Witness ==
    /\ accepted >= 1
    /\ evaluated > accepted
    /\ pc = "inner"
    /\ cost_i # cost
    /\ beta # new_beta
    /\ beta # SeedBeta
    /\ Len(solutions) = accepted + 1
    /\ Last(solutions) = cost
    /\ <<Last(betas_car), Last(betas_cost), Last(betas_tt)>> = beta

====
